---- MODULE Spec2Model ----
(***************************************************************************)
(* A model of scripts/create_workshop_repos.py: the batch that reads the   *)
(* workshop coordination sheet and creates / updates one GitHub repository *)
(* per workshop.                                                           *)
(*                                                                         *)
(* Strings are sequences of pieces.  The fields that the script splits     *)
(* (organizers, date, book chair usernames) are sequences of characters;   *)
(* the workshop name and the README are sequences of words.  Every file    *)
(* body is a flat sequence of strings, so that the script's comparison of  *)
(* old and new contents is sequence equality.                              *)
(***************************************************************************)
EXTENDS Integers, Sequences, FiniteSets, TLC

VARIABLES
    rows,           \* workshop_data: the rows fetch_coordination_sheet returned
    skip_existing,  \* args.skip_existing
    run,            \* which invocation of the script this is (1 = first)
    pc,             \* position of main
    i,              \* index in rows of the workshop the for loop is at
    metadata,       \* main's local: the WorkshopMetadata of the row, or NoMetadata
    repo,           \* main's local: index in repos of the Repository object, 0 = None
    readme,         \* update_repo's local: the patched README text
    k,              \* update_repo's loop: index of the next book chair
    repos,          \* the hosting service: the repositories of the organisation
    calls,          \* every call made on the hosting service, in order
    out,            \* the console: what was printed and typed, in order
    error,          \* the exception that left main, or NoError
    before          \* the repository as it was when main got it (looked up or forked)

vars == <<rows, skip_existing, run, pc, i, metadata, repo, readme, k, repos,
          calls, out, error, before>>

----------------------------------------------------------------------------
(* Bounds of the model *)

MaxRows == 2
MaxRuns == 2
MaxChairs == 2

----------------------------------------------------------------------------
(* str methods, as Python computes them *)

Last(s) == s[Len(s)]

\* str.replace(old, new) for a non-empty old: left to right, non-overlapping.
RECURSIVE Replace(_, _, _)
Replace(s, old, new) ==
    IF Len(s) < Len(old) THEN s
    ELSE IF SubSeq(s, 1, Len(old)) = old
         THEN new \o Replace(SubSeq(s, Len(old) + 1, Len(s)), old, new)
         ELSE <<Head(s)>> \o Replace(Tail(s), old, new)

\* str.split(sep): the pieces between the occurrences of sep; "" splits to [""].
RECURSIVE SplitAcc(_, _, _)
SplitAcc(s, sep, cur) ==
    IF Len(s) < Len(sep) THEN <<cur \o s>>
    ELSE IF SubSeq(s, 1, Len(sep)) = sep
         THEN <<cur>> \o SplitAcc(SubSeq(s, Len(sep) + 1, Len(s)), sep, <<>>)
         ELSE SplitAcc(Tail(s), sep, Append(cur, Head(s)))

Split(s, sep) == SplitAcc(s, sep, <<>>)

\* str.partition(" "): (before the first space, " ", after it), or (s, "", "").
Partition(s) ==
    IF \E n \in 1..Len(s) : s[n] = " "
    THEN LET n == CHOOSE n \in 1..Len(s) :
                      s[n] = " " /\ \A m \in 1..(n - 1) : s[m] # " "
         IN  <<SubSeq(s, 1, n - 1), <<" ">>, SubSeq(s, n + 1, Len(s))>>
    ELSE <<s, <<>>, <<>>>>

\* str.lower() on the answers typed at a prompt.
Lower(a) == IF a = "Y" THEN "y" ELSE IF a = "N" THEN "n" ELSE a

\* sep.join of a sequence of strings.
RECURSIVE Join(_, _)
Join(sep, ss) ==
    IF ss = <<>> THEN <<>>
    ELSE IF Len(ss) = 1 THEN Head(ss)
    ELSE Head(ss) \o sep \o Join(sep, Tail(ss))

----------------------------------------------------------------------------
(* datetime.strptime(date, "%d/%m/%Y") and strftime("%Y-%m-%d") *)

Digits == <<"0", "1", "2", "3", "4", "5", "6", "7", "8", "9">>

IsDigit(c) == \E n \in 1..10 : Digits[n] = c

DigitValue(c) == (CHOOSE n \in 1..10 : Digits[n] = c) - 1

RECURSIVE Number(_)
Number(s) == IF s = <<>> THEN 0 ELSE 10 * Number(SubSeq(s, 1, Len(s) - 1)) + DigitValue(Last(s))

\* %d : 3[0-1] | [1-2]\d | 0[1-9] | [1-9] | " "[1-9]
MatchesDay(s) ==
    \/ Len(s) = 2 /\ s[1] = "3" /\ s[2] \in {"0", "1"}
    \/ Len(s) = 2 /\ s[1] \in {"1", "2"} /\ IsDigit(s[2])
    \/ Len(s) = 2 /\ s[1] \in {"0", " "} /\ IsDigit(s[2]) /\ s[2] # "0"
    \/ Len(s) = 1 /\ IsDigit(s[1]) /\ s[1] # "0"

\* %m : 1[0-2] | 0[1-9] | [1-9]
MatchesMonth(s) ==
    \/ Len(s) = 2 /\ s[1] = "1" /\ s[2] \in {"0", "1", "2"}
    \/ Len(s) = 2 /\ s[1] = "0" /\ IsDigit(s[2]) /\ s[2] # "0"
    \/ Len(s) = 1 /\ IsDigit(s[1]) /\ s[1] # "0"

\* %Y : \d\d\d\d
MatchesYear(s) == Len(s) = 4 /\ \A n \in 1..4 : IsDigit(s[n])

IsLeap(y) == ((y % 4) = 0 /\ (y % 100) # 0) \/ (y % 400) = 0

DaysInMonth(y, m) ==
    IF m = 2 THEN (IF IsLeap(y) THEN 29 ELSE 28)
    ELSE IF m \in {4, 6, 9, 11} THEN 30 ELSE 31

StripSpace(s) == IF s # <<>> /\ Head(s) = " " THEN Tail(s) ELSE s

NoDate == [year |-> 0, month |-> 0, day |-> 0]

Date(y, m, d) == [year |-> y, month |-> m, day |-> d]

\* The format matches the whole string and the fields make a date of the calendar.
StrptimeOk(s) ==
    LET f == Split(s, <<"/">>)
    IN  /\ Len(f) = 3
        /\ MatchesDay(f[1]) /\ MatchesMonth(f[2]) /\ MatchesYear(f[3])
        /\ Number(f[3]) >= 1
        /\ Number(StripSpace(f[1])) <= DaysInMonth(Number(f[3]), Number(f[2]))

\* (mutant) the format is read as %m/%d/%Y.
StrptimeMonthFirst(s) ==
    LET f == Split(s, <<"/">>)
    IN  Date(Number(f[3]), Number(StripSpace(f[1])), Number(f[2]))

Strptime(s) ==
    LET f == Split(s, <<"/">>)
    IN  Date(Number(f[3]), Number(f[2]), Number(StripSpace(f[1])))

TwoDigits(n) == <<Digits[((n \div 10) % 10) + 1], Digits[(n % 10) + 1]>>

\* strftime("%Y-%m-%d")
Strftime(d) ==
    TwoDigits(d.year \div 100) \o TwoDigits(d.year % 100) \o <<"-">>
        \o TwoDigits(d.month) \o <<"-">> \o TwoDigits(d.day)

----------------------------------------------------------------------------
(* The rows of the coordination sheet *)

TwoDayLiteral == <<"7", " ", "&", " ", "8", " ", "D", "e", "c", "e", "m", "b", "e", "r">>

Placeholder == <<"EMNLP", "2022", "workshop", "template">>

Workshop(acronym, name, organizers, date, chairs) ==
    [acronym |-> acronym, name |-> name, website |-> "https://example.org",
     organizers |-> organizers, date |-> date, chairs |-> chairs]

NoWorkshop == Workshop("", <<>>, <<>>, <<>>, <<>>)

AnaAndBen == <<"A", "n", "a", " ", "S", " ", "a", "n", "d", " ", "B", "e", "n", " ", "O">>
AnaCher == <<"A", "n", "a", " ", "S", ",", " ", "C", "h", "e", "r">>

Dec8 == <<"0", "8", "/", "1", "2", "/", "2", "0", "2", "2">>

\* The rows the batch is run on: one field varied at a time.
Workshops ==
    { Workshop("WS1", <<"NLP", "for", "Science">>, AnaAndBen, Dec8, <<"a", ",", " ", "b", "o">>),
      Workshop("WS2", Placeholder \o <<"II">>, AnaCher, TwoDayLiteral, <<"b", "o">>),
      Workshop("WS1", <<"NLP", "for", "Science">>, AnaAndBen, Dec8, <<>>),
      Workshop("WS2", <<"Text", "Mining">>, AnaCher, Dec8, <<" ">>),
      Workshop("WS1", <<"NLP", "for", "Science">>, AnaAndBen, Dec8, <<"a", ",", "z", ",", "b", "o">>),
      Workshop("WS2", <<"Text", "Mining">>, AnaCher, <<"8", " ", "D", "e", "c">>, <<"a">>) }

\* What the operator may type at a prompt.
Answers == {"y", "Y", "n", ""}

----------------------------------------------------------------------------
(* The hosting service *)

\* The accounts the hosting service knows.
KnownUsers == {<<"a">>, <<"b", "o">>, <<"o">>}

TrackedFiles == {"conference_details.yml", "organizing_committee.yml", "README.md"}

Paths == TrackedFiles \cup {"LICENSE"}

TemplateFiles ==
    [p \in Paths |->
        IF p = "README.md" THEN <<"#">> \o Placeholder \o <<"repository">>
        ELSE IF p = "LICENSE" THEN <<"MIT">>
        ELSE <<"TODO">>]

\* What template_repo.create_fork(organization="emnlp-2022") puts in the organisation.
ForkOfTemplate ==
    [name |-> "workshop-template", description |-> <<"template">>, homepage |-> "",
     private |-> FALSE, collaborators |-> {}, files |-> TemplateFiles]

NoRepo ==
    [name |-> "", description |-> <<>>, homepage |-> "", private |-> FALSE,
     collaborators |-> {}, files |-> [p \in Paths |-> <<>>]]

\* A repository that is in the organisation before the batch starts.
PriorRepo(acronym, v) ==
    IF v = 1
    THEN [ForkOfTemplate EXCEPT !.name = acronym, !.collaborators = {<<"o">>}]
    ELSE [ForkOfTemplate EXCEPT !.name = acronym, !.private = TRUE,
                                !.description = <<"Text", "Mining">>,
                                !.files = [TemplateFiles EXCEPT
                                    !["README.md"] = <<"#", "Text", "Mining">>,
                                    !["LICENSE"] = <<"Apache">>]]

InitialRepos ==
    {<<>>, <<PriorRepo("WS1", 1)>>, <<PriorRepo("WS1", 2)>>, <<PriorRepo("WS2", 1)>>,
     <<PriorRepo("WS2", 2)>>, <<PriorRepo("WS2", 2), PriorRepo("WS1", 1)>>}

FullName(r) == <<"emnlp-2022/", r.name>>

\* g.get_repo(full_name): the repository of that name, or 0 (UnknownObjectException).
Lookup(full_name) ==
    IF \E n \in 1..Len(repos) : FullName(repos[n]) = full_name
    THEN CHOOSE n \in 1..Len(repos) : FullName(repos[n]) = full_name
    ELSE 0

\* A call on the hosting service made for the row the loop is at: its operation,
\* its argument, the permission asked for (grants only) and whether it succeeded.
Call(op, arg, ok) ==
    [run |-> run, rec |-> i, op |-> op, arg |-> arg,
     permission |-> IF op = "add_to_collaborators" THEN "admin" ELSE "", ok |-> ok]

\* A line of the console: what print wrote, and what input() read after it
\* ("-" when nothing was read).
Printed(msg) == [run |-> run, rec |-> i, msg |-> msg, typed |-> "-"]

Asked(msg, answer) == [run |-> run, rec |-> i, msg |-> msg, typed |-> answer]

----------------------------------------------------------------------------
(* WorkshopMetadata *)

\* list_names(organizers, institution); hasInstitution is "institution is not None".
ListNames(organizers, hasInstitution, institution) ==
    Join(<<"\n">>,
         [n \in 1..Len(organizers) |->
            <<"  - first_name: ">> \o organizers[n].first_name
            \o (IF hasInstitution THEN <<"\n    institution: ">> \o institution ELSE <<>>)
            \o <<"\n    last_name: ">> \o organizers[n].last_name])

Organizers(w) ==
    LET names == Split(Replace(w.organizers, <<" ", "a", "n", "d", " ">>, <<",", " ">>),
                       <<",", " ">>)
    IN  [n \in 1..Len(names) |->
            [first_name |-> Partition(names[n])[1], last_name |-> Partition(names[n])[3]]]

StartDate(w) == IF w.date = TwoDayLiteral THEN Date(2022, 12, 7) ELSE Strptime(w.date)

EndDate(w) == IF w.date = TwoDayLiteral THEN Date(2022, 12, 8) ELSE Strptime(w.date)

ConferenceDetails(w) ==
    <<"book_title: Proceedings of the ">> \o w.name \o <<" (", w.acronym, ")\n">>
    \o <<"event_name: ">> \o w.name \o <<"\n">>
    \o <<"cover_subtitle: Proceedings of the Workshop\n">>
    \o <<"anthology_venue_id: ", w.acronym, "\n">>
    \o <<"start_date: ">> \o Strftime(StartDate(w)) \o <<"\n">>
    \o <<"end_date: ">> \o Strftime(EndDate(w)) \o <<"\n">>
    \o <<"location: Abu Dhabi, United Arab Emirates (Hybrid)\n">>
    \o <<"editors:\n">> \o ListNames(Organizers(w), FALSE, <<>>) \o <<"\n">>
    \o <<"publisher: Association for Computational Linguistics\n">>
    \o <<"volume_name: 1\n">>

OrganizingCommittee(w) ==
    <<"- members:\n">> \o ListNames(Organizers(w), TRUE, <<>>) \o <<"\n">>
    \o <<"  role: Organizers\n">>

\* WorkshopMetadata(workshop), when the constructor returns.
WorkshopMetadata(w) ==
    [data |-> w,
     repo_full_name |-> <<"emnlp-2022/", w.acronym>>,
     organizers |-> Organizers(w),
     start_date |-> StartDate(w),
     end_date |-> EndDate(w),
     conference_details |-> ConferenceDetails(w),
     organizing_committee |-> OrganizingCommittee(w)]

NoMetadata ==
    [data |-> NoWorkshop, repo_full_name |-> <<>>, organizers |-> <<>>,
     start_date |-> NoDate, end_date |-> NoDate,
     conference_details |-> <<>>, organizing_committee |-> <<>>]

\* The constructor returns unless strptime raises ValueError.
DateParses(date) == date = TwoDayLiteral \/ StrptimeOk(date)

\* (mutant) the field is taken for one username list of which only the first
\* is a book chair.
BookChairsFirstOnly(w) == <<Head(Split(Replace(w.chairs, <<" ">>, <<>>), <<",">>))>>

\* metadata.data["book chair github username"].replace(" ", "").split(",")
BookChairs(w) == Split(Replace(w.chairs, <<" ">>, <<>>), <<",">>)

----------------------------------------------------------------------------
(* Control flow of main *)

NoError == [type |-> "none", about |-> <<>>, at |-> 0, run |-> 0]

Exception(type, about) == [type |-> type, about |-> about, at |-> i, run |-> run]

\* main goes on to the statement at label.
Goto(label) == pc' = label /\ i' = i /\ error' = error

\* continue, or the end of the loop body: the for loop takes the next row.
Continue == pc' = "for" /\ i' = i + 1 /\ error' = error

\* (mutant) the loop catches the exception and takes the next row.
RaiseAndContinue(e) == pc' = "for" /\ i' = i + 1 /\ error' = e

\* An exception is raised: nothing in main catches it, so it leaves main.
Raise(e) == pc' = "raised" /\ i' = i /\ error' = e

\* (mutant) the files are written before the repository is edited and shared.
UpdateRepoFilesFirst ==
    <<"update_repo", "conference_details", "organizing_committee", "readme",
      "edit", "collaborators">>

\* The statements of update_repo, in the order of the source.
UpdateRepoStatements ==
    <<"update_repo", "edit", "collaborators", "conference_details",
      "organizing_committee", "readme">>

\* update_repo goes on after the statement at label: to the next statement, or,
\* after the last, back to main, whose loop takes the next row.
Then(label) ==
    LET n == CHOOSE n \in 1..Len(UpdateRepoStatements) : UpdateRepoStatements[n] = label
    IN  IF n = Len(UpdateRepoStatements) THEN Continue
        ELSE Goto(UpdateRepoStatements[n + 1])

\* What the handler of UnknownObjectException (lines 125-126) raises: building the
\* message of the ValueError reads metadata.workshop, which WorkshopMetadata does
\* not have, so AttributeError is raised instead of the ValueError.
UnknownUsernameError(book_chair) == Exception("AttributeError", <<"workshop">>)

\* None.get_contents: 'NoneType' object has no attribute 'get_contents'.
NoneTypeError == Exception("AttributeError", <<"get_contents">>)

\* The state when main starts, on one of the sheets of Sheets and with the
\* organisation holding one of Remotes.
InitOn(Sheets, Remotes) ==
    /\ rows \in Sheets
    /\ skip_existing \in BOOLEAN
    /\ repos \in Remotes
    /\ run = 1
    /\ pc = "for"
    /\ i = 1
    /\ metadata = NoMetadata
    /\ repo = 0
    /\ readme = <<>>
    /\ k = 1
    /\ calls = <<>>
    /\ out = <<>>
    /\ error = NoError
    /\ before = NoRepo

Init == InitOn(UNION {[1..n -> Workshops] : n \in 1..MaxRows}, InitialRepos)

\* for workshop in workshop_data: no row is left.
Finish ==
    /\ pc = "for" /\ i > Len(rows)
    /\ pc' = "done"
    /\ UNCHANGED <<rows, skip_existing, run, i, metadata, repo, readme, k, repos,
                   calls, out, error, before>>

\* if not workshop["book chair github username"]: print, continue.
SkipNoBookChair ==
    /\ pc = "for" /\ i <= Len(rows)
    /\ rows[i].chairs = <<>>
    /\ out' = Append(out, Printed("Book chair not set, skipping"))
    /\ Continue
    /\ UNCHANGED <<rows, skip_existing, run, metadata, repo, readme, k, repos,
                   calls, before>>

\* metadata = WorkshopMetadata(workshop)
Construct ==
    /\ pc = "for" /\ i <= Len(rows)
    /\ rows[i].chairs # <<>>
    /\ IF DateParses(rows[i].date)
       THEN metadata' = WorkshopMetadata(rows[i]) /\ Goto("get_repo")
       ELSE metadata' = metadata /\ Raise(Exception("ValueError", rows[i].date))
    /\ UNCHANGED <<rows, skip_existing, run, repo, readme, k, repos, calls, out, before>>

\* repo = get_repo(g, metadata)
GetRepo ==
    /\ pc = "get_repo"
    /\ repo' = Lookup(metadata.repo_full_name)
    /\ calls' = Append(calls, Call("get_repo", metadata.repo_full_name,
                                   Lookup(metadata.repo_full_name) # 0))
    /\ before' = IF Lookup(metadata.repo_full_name) # 0
                  THEN repos[Lookup(metadata.repo_full_name)] ELSE NoRepo
    /\ Goto("if_repo")
    /\ UNCHANGED <<rows, skip_existing, run, metadata, readme, k, repos, out>>

\* if repo is None: repo = create_repo(g, metadata)
CreateRepo ==
    /\ pc = "if_repo" /\ repo = 0
    /\ \E answer \in Answers :
          /\ out' = Append(out, Asked("Create? [Y/N]", answer))
          /\ IF Lower(answer) # "y"
             THEN
               /\ repo' = 0
               /\ repos' = repos
               /\ before' = before
               /\ calls' = Append(calls, Call("get_repo",
                                              <<"emnlp-2022/", "workshop-template">>, TRUE))
             ELSE
               /\ repo' = Len(repos) + 1
               /\ repos' = Append(repos, ForkOfTemplate)
               /\ before' = ForkOfTemplate
               /\ calls' = calls \o
                     <<Call("get_repo", <<"emnlp-2022/", "workshop-template">>, TRUE),
                       Call("create_fork", <<"emnlp-2022">>, TRUE)>>
    /\ Goto("update_repo")
    /\ UNCHANGED <<rows, skip_existing, run, metadata, readme, k>>

\* elif args.skip_existing: print, continue.
SkipExisting ==
    /\ pc = "if_repo" /\ repo # 0
    /\ skip_existing
    /\ out' = Append(out, Printed("already exists, skipping"))
    /\ Continue
    /\ UNCHANGED <<rows, skip_existing, run, metadata, repo, readme, k, repos,
                   calls, before>>

\* (mutant) the test of the answer is the wrong way round.
AskUpdateInverted ==
    /\ pc = "if_repo" /\ repo # 0
    /\ ~skip_existing
    /\ \E answer \in Answers :
          /\ out' = Append(out, Asked("already exists, update? [Y/N]", answer))
          /\ IF Lower(answer) = "y" THEN Continue ELSE Goto("update_repo")
    /\ UNCHANGED <<rows, skip_existing, run, metadata, repo, readme, k, repos,
                   calls, before>>

\* else: print the question; if input().lower() != "y": continue.
AskUpdate ==
    /\ pc = "if_repo" /\ repo # 0
    /\ ~skip_existing
    /\ \E answer \in Answers :
          /\ out' = Append(out, Asked("already exists, update? [Y/N]", answer))
          /\ IF Lower(answer) # "y" THEN Continue ELSE Goto("update_repo")
    /\ UNCHANGED <<rows, skip_existing, run, metadata, repo, readme, k, repos,
                   calls, before>>

----------------------------------------------------------------------------
(* update_repo *)

\* readme = repo.get_contents("README.md").decoded_content.decode().replace(...)
GetReadme ==
    /\ pc = "update_repo"
    /\ IF repo = 0
       THEN /\ Raise(NoneTypeError)
            /\ UNCHANGED <<readme, calls>>
       ELSE /\ readme' = Replace(repos[repo].files["README.md"], Placeholder,
                                 metadata.data.name)
            /\ calls' = Append(calls, Call("get_contents", <<"README.md">>, TRUE))
            /\ Then("update_repo")
    /\ UNCHANGED <<rows, skip_existing, run, metadata, repo, k, repos, out, before>>

\* repo.edit(name=..., description=..., homepage=..., private=True)
Edited(r, w) ==
    [r EXCEPT !.name = w.acronym, !.description = w.name,
              !.homepage = w.website, !.private = TRUE]

EditRepo ==
    /\ pc = "edit"
    /\ repos' = [repos EXCEPT ![repo] = Edited(@, metadata.data)]
    /\ calls' = Append(calls, Call("edit", <<metadata.data.acronym>>, TRUE))
    /\ k' = 1
    /\ Then("edit")
    /\ UNCHANGED <<rows, skip_existing, run, metadata, repo, readme, out, before>>

\* repo.add_to_collaborators(book_chair, "admin")
Granted(r, book_chair) == [r EXCEPT !.collaborators = @ \cup {book_chair}]

\* One turn of the loop over the book chairs.
AddCollaborator ==
    /\ pc = "collaborators"
    /\ LET book_chair == BookChairs(metadata.data)[k]
       IN  IF book_chair \in KnownUsers
           THEN /\ repos' = [repos EXCEPT ![repo] = Granted(@, book_chair)]
                /\ calls' = Append(calls, Call("add_to_collaborators", book_chair, TRUE))
                /\ k' = k + 1
                /\ IF k = Len(BookChairs(metadata.data))
                   THEN Then("collaborators") ELSE Goto("collaborators")
           ELSE /\ repos' = repos
                /\ calls' = Append(calls, Call("add_to_collaborators", book_chair, FALSE))
                /\ k' = k
                /\ Raise(UnknownUsernameError(book_chair))
    /\ UNCHANGED <<rows, skip_existing, run, metadata, repo, readme, out, before>>

\* (mutant) the comparison is the wrong way round.
NeedsWriteInverted(old_contents, new_contents) == old_contents = new_contents

\* if old_contents.decoded_content.decode() != new_contents
NeedsWrite(old_contents, new_contents) == old_contents # new_contents

\* update_file(repo, filename, new_contents), called by the statement at label
\* `at`.  The write can be refused by the service (a stale sha, a transport
\* failure).
UpdateFile(at, filename, new_contents) ==
    /\ pc = at
    /\ IF NeedsWrite(repos[repo].files[filename], new_contents)
       THEN \E refused \in BOOLEAN :
              IF refused
              THEN /\ repos' = repos
                   /\ calls' = calls \o <<Call("get_contents", <<filename>>, TRUE),
                                           Call("update_file", <<filename>>, FALSE)>>
                   /\ Raise(Exception("GithubException", <<filename>>))
              ELSE /\ repos' = [repos EXCEPT ![repo].files[filename] = new_contents]
                   /\ calls' = calls \o <<Call("get_contents", <<filename>>, TRUE),
                                           Call("update_file", <<filename>>, TRUE)>>
                   /\ Then(at)
       ELSE /\ repos' = repos
            /\ calls' = Append(calls, Call("get_contents", <<filename>>, TRUE))
            /\ Then(at)
    /\ UNCHANGED <<rows, skip_existing, run, metadata, repo, readme, k, out, before>>

UpdateConferenceDetails ==
    UpdateFile("conference_details", "conference_details.yml",
               metadata.conference_details)

UpdateOrganizingCommittee ==
    UpdateFile("organizing_committee", "organizing_committee.yml",
               metadata.organizing_committee)

UpdateReadme == UpdateFile("readme", "README.md", readme)

\* The operator runs the script again on the same sheet.
Rerun ==
    /\ pc \in {"done", "raised"}
    /\ run < MaxRuns
    /\ run' = run + 1
    /\ pc' = "for" /\ i' = 1 /\ error' = NoError
    /\ metadata' = NoMetadata /\ repo' = 0 /\ readme' = <<>> /\ k' = 1
    /\ before' = NoRepo
    /\ UNCHANGED <<rows, skip_existing, repos, calls, out>>

Next ==
    \/ Finish
    \/ SkipNoBookChair
    \/ Construct
    \/ GetRepo
    \/ CreateRepo
    \/ SkipExisting
    \/ AskUpdate
    \/ GetReadme
    \/ EditRepo
    \/ AddCollaborator
    \/ UpdateConferenceDetails
    \/ UpdateOrganizingCommittee
    \/ UpdateReadme

Spec == Init /\ [][Next]_vars

NextRerun == Next \/ Rerun

SpecRerun == Init /\ [][NextRerun]_vars

----------------------------------------------------------------------------
(* Reading the log of calls and the console *)

MutatingOps == {"create_fork", "edit", "add_to_collaborators", "update_file"}

\* The calls made in run r for row n, in order.
CallsOf(r, n) == SelectSeq(calls, LAMBDA c : c.run = r /\ c.rec = n)

OpsOf(r, n, ops) == SelectSeq(calls, LAMBDA c : c.run = r /\ c.rec = n /\ c.op \in ops)

ConsoleOf(r, n) == SelectSeq(out, LAMBDA l : l.run = r /\ l.rec = n)

\* Row n of run r went through update_repo to its last statement.
AppliedOk(r, n) ==
    /\ OpsOf(r, n, {"edit"}) # <<>>
    /\ Last(CallsOf(r, n)).arg = <<"README.md">>
    /\ Last(CallsOf(r, n)).ok

\* update_repo has just returned for the row before the one the loop is at.
JustApplied == pc = "for" /\ i > 1 /\ AppliedOk(run, i - 1)

\* The lookup of row n found its repository.
Present(r, n) ==
    \E c \in {CallsOf(r, n)[x] : x \in 1..Len(CallsOf(r, n))} :
        c.op = "get_repo" /\ c.arg = <<"emnlp-2022/", rows[n].acronym>> /\ c.ok

\* The lookup of row n found no repository.
Missing(r, n) ==
    \E c \in {CallsOf(r, n)[x] : x \in 1..Len(CallsOf(r, n))} :
        c.op = "get_repo" /\ c.arg = <<"emnlp-2022/", rows[n].acronym>> /\ ~c.ok

\* The question asked for row n was answered, and not with yes.
Declined(r, n) ==
    \E l \in {ConsoleOf(r, n)[x] : x \in 1..Len(ConsoleOf(r, n))} :
        l.typed \notin {"-", "y", "Y"}

AnsweredYes(r, n) ==
    \E l \in {ConsoleOf(r, n)[x] : x \in 1..Len(ConsoleOf(r, n))} :
        l.typed \in {"y", "Y"}

\* Row n of the current run ended with an exception.
Failed(n) == pc = "raised" /\ error.run = run /\ error.at = n

----------------------------------------------------------------------------
(* C1 *)

----------------------------------------------------------------------------
(* C2 *)

\* C2: when the lookup finds no repository and the creation is declined, the
\* record makes no fork, edit, grant or write, does not fail, and the batch goes
\* on to the next row.
C2_DeclinedCreationIsDone ==
    \A n \in 1..Len(rows) :
        (Missing(run, n) /\ Declined(run, n)) =>
            /\ OpsOf(run, n, MutatingOps) = <<>>
            /\ ~Failed(n)

----------------------------------------------------------------------------
(* C3 *)

ChairSet(w) == {BookChairs(w)[x] : x \in 1..Len(BookChairs(w))}

\* What update_repo is to leave in the repository, collaborators aside.
SyncedExceptCollaborators(r, w, prior) ==
    /\ r.name = w.acronym
    /\ r.description = w.name
    /\ r.homepage = w.website
    /\ r.private
    /\ r.files["conference_details.yml"] = ConferenceDetails(w)
    /\ r.files["organizing_committee.yml"] = OrganizingCommittee(w)
    /\ r.files["README.md"] = Replace(prior.files["README.md"], Placeholder, w.name)
    /\ \A p \in Paths \ TrackedFiles : r.files[p] = prior.files[p]
    /\ \A x \in 1..Len(calls) :
          (calls[x].run = run /\ calls[x].rec = i - 1 /\ calls[x].op = "update_file")
              => calls[x].arg \in {<<p>> : p \in TrackedFiles}

\* C3 as stated: after an apply that finished without failure the cosmetic fields,
\* the three tracked files and the collaborator set equal the rendered output: the
\* collaborators are exactly the record's book chairs, no other one remains.
C3_ExactlyRendered ==
    JustApplied =>
        /\ SyncedExceptCollaborators(repos[repo], rows[i - 1], before)
        /\ repos[repo].collaborators = ChairSet(rows[i - 1])

\* C3, amended: ... the collaborator set is what it was before together with the
\* record's book chairs (grants only add; a collaborator that was there remains).
C3_RenderedAndGranted ==
    JustApplied =>
        /\ SyncedExceptCollaborators(repos[repo], rows[i - 1], before)
        /\ repos[repo].collaborators = before.collaborators \cup ChairSet(rows[i - 1])

C3_Witness ==
    /\ JustApplied
    /\ before.collaborators = {<<"o">>}
    /\ repos[repo].files # before.files
    /\ repos[repo].name = rows[i - 1].acronym

----------------------------------------------------------------------------
(* C4 *)

\* No other row of the sheet is for the same repository.
OnlyRowOfItsRepository(n) ==
    \A m \in 1..Len(rows) : m # n => rows[m].acronym # rows[n].acronym

Contains(s, sub) ==
    \E x \in 0..(Len(s) - Len(sub)) : SubSeq(s, x + 1, x + Len(sub)) = sub

\* C4: when a record is applied in one run and applied again in the next run, with
\* nothing else touching its repository in between, the second pass issues no
\* file write, whatever the display name and the README.
C4_SecondPassWritesNothing ==
    \A n \in 1..Len(rows) :
        (run > 1 /\ AppliedOk(run - 1, n) /\ OnlyRowOfItsRepository(n))
            => OpsOf(run, n, {"update_file"}) = <<>>

\* The same for the display names that do not contain the placeholder phrase.
SecondPassWritesNothingForPlainNames ==
    \A n \in 1..Len(rows) :
        (run > 1 /\ AppliedOk(run - 1, n) /\ OnlyRowOfItsRepository(n)
           /\ ~Contains(rows[n].name, Placeholder))
            => OpsOf(run, n, {"update_file"}) = <<>>

SecondPassReached ==
    \E n \in 1..Len(rows) :
        /\ run > 1 /\ AppliedOk(run - 1, n) /\ OnlyRowOfItsRepository(n)
        /\ AppliedOk(run, n)
        /\ ~Contains(rows[n].name, Placeholder)

----------------------------------------------------------------------------
(* C5 *)

\* The grants of row n that succeeded, in order.
GrantedTo(r, n) ==
    [x \in 1..Len(SelectSeq(CallsOf(r, n), LAMBDA c : c.op = "add_to_collaborators" /\ c.ok))
        |-> SelectSeq(CallsOf(r, n), LAMBDA c : c.op = "add_to_collaborators" /\ c.ok)[x].arg]

\* The grant of row n that the service refused (the username is unknown to it).
RefusedGrant(n) ==
    /\ CallsOf(run, n) # <<>>
    /\ Last(CallsOf(run, n)).op = "add_to_collaborators"
    /\ ~Last(CallsOf(run, n)).ok

\* The record's state at a refused grant, the exception aside: the cosmetic fields
\* are set, the usernames listed before the unknown one are granted, no file is
\* written.
PartialStateAtRefusedGrant(n) ==
    /\ Failed(n)
    /\ OpsOf(run, n, {"edit"}) # <<>>
    /\ repos[repo] = Edited(repos[repo], rows[n])
    /\ GrantedTo(run, n) = SubSeq(BookChairs(rows[n]), 1, Len(GrantedTo(run, n)))
    /\ BookChairs(rows[n])[Len(GrantedTo(run, n)) + 1] = Last(CallsOf(run, n)).arg
    /\ \A x \in 1..Len(GrantedTo(run, n)) : GrantedTo(run, n)[x] \in repos[repo].collaborators
    /\ OpsOf(run, n, {"update_file"}) = <<>>

\* C5: an unknown book-chair username ends apply at that grant with an error that
\* names the unknown username (the ValueError of line 126), the cosmetic fields set,
\* the earlier usernames granted and no tracked file written.
C5_UnknownCollaboratorError ==
    \A n \in 1..Len(rows) :
        RefusedGrant(n) =>
            /\ PartialStateAtRefusedGrant(n)
            /\ error.type = "ValueError"
            /\ error.about = Last(CallsOf(run, n)).arg

\* The part of C5 that the code does keep.
PartialStateKept ==
    \A n \in 1..Len(rows) : RefusedGrant(n) => PartialStateAtRefusedGrant(n)

----------------------------------------------------------------------------
(* C6 *)

Blank(s) == \A x \in 1..Len(s) : s[x] = " "

\* Row n has been gone through by the loop of the current run.
Past(n) == n < i \/ pc \in {"done", "raised"}

\* C6: a row whose book-chair field is empty or only spaces makes no call on the
\* hosting service, is reported as skipped, does not fail, and the batch goes on.
C6_BlankBookChairSkipped ==
    \A n \in 1..Len(rows) :
        Blank(rows[n].chairs) =>
            /\ CallsOf(run, n) = <<>>
            /\ ~Failed(n)
            /\ n < i => ConsoleOf(run, n) = <<[run |-> run, rec |-> n,
                           msg |-> "Book chair not set, skipping", typed |-> "-"]>>

\* The same for the empty field alone, which is what line 138 tests.
EmptyBookChairSkipped ==
    \A n \in 1..Len(rows) :
        rows[n].chairs = <<>> =>
            /\ CallsOf(run, n) = <<>>
            /\ ~Failed(n)
            /\ n < i => ConsoleOf(run, n) = <<[run |-> run, rec |-> n,
                           msg |-> "Book chair not set, skipping", typed |-> "-"]>>

----------------------------------------------------------------------------
(* C7 *)

\* The loop has left row n of the current run by a continue, without update_repo.
LeftAlone(n) == n < i /\ OpsOf(run, n, {"get_contents"}) = <<>>

\* C7: for a record whose repository exists, a mutating call is made only when
\* skip-existing is off and the update question was answered yes; in skip-existing
\* mode nothing is asked; skipped or declined, the repository is as it was found
\* and the batch is at the next row.
C7_PresentUntouchedUnlessConfirmed ==
    /\ \A n \in 1..Len(rows) :
          Present(run, n) =>
              /\ OpsOf(run, n, {"create_fork"}) = <<>>
              /\ OpsOf(run, n, MutatingOps) # <<>> => (~skip_existing /\ AnsweredYes(run, n))
              /\ skip_existing =>
                    \A x \in 1..Len(ConsoleOf(run, n)) : ConsoleOf(run, n)[x].typed = "-"
              /\ (Past(n) /\ (skip_existing \/ Declined(run, n))) =>
                    (LeftAlone(n) /\ ~Failed(n))
    /\ (i > 1 /\ pc = "for" /\ Present(run, i - 1) /\ LeftAlone(i - 1)) =>
          repos[repo] = before

C7_Witness ==
    /\ pc = "for" /\ i = 2 /\ Len(rows) = 2
    /\ Present(run, 1) /\ Declined(run, 1)
    /\ ~skip_existing
    /\ repos[repo] = before

----------------------------------------------------------------------------
(* C10 *)

\* C10: within a record the mutating calls come in the order edit, grants, file
\* writes; and every call of a record comes before the first call of the next.
C10_CallOrder ==
    \A x, y \in 1..Len(calls) :
        (x < y /\ calls[x].run = calls[y].run) =>
            /\ calls[x].rec <= calls[y].rec
            /\ calls[x].rec = calls[y].rec =>
                  /\ ~(calls[x].op = "update_file"
                          /\ calls[y].op \in {"add_to_collaborators", "edit", "create_fork"})
                  /\ ~(calls[x].op = "add_to_collaborators"
                          /\ calls[y].op \in {"edit", "create_fork"})
                  /\ ~(calls[x].op = "edit" /\ calls[y].op = "create_fork")

C10_Witness ==
    /\ Len(rows) = 2 /\ pc = "done"
    /\ AppliedOk(run, 1) /\ AppliedOk(run, 2)
    /\ Len(OpsOf(run, 1, {"add_to_collaborators"})) = 2
    /\ OpsOf(run, 1, {"update_file"}) # <<>>
    /\ OpsOf(run, 2, {"update_file"}) # <<>>

----------------------------------------------------------------------------
(* Sheets whose first row has a book-chair field written from a list of usernames *)

FieldUsers == {<<"a">>, <<"b", "o">>}

UserLists == UNION {[1..n -> FieldUsers] : n \in 1..MaxChairs}

\* The spaces before the list, before a comma, after a comma and after the list.
Paddings ==
    { [pre |-> <<>>, left |-> <<>>, right |-> <<>>, post |-> <<>>],
      [pre |-> <<>>, left |-> <<>>, right |-> <<" ">>, post |-> <<>>],
      [pre |-> <<" ">>, left |-> <<" ", " ">>, right |-> <<>>, post |-> <<" ">>],
      [pre |-> <<" ">>, left |-> <<" ">>, right |-> <<" ">>, post |-> <<" ", " ">>] }

Field(us, p) == p.pre \o Join(p.left \o <<",">> \o p.right, us) \o p.post

ChairWorkshops ==
    { Workshop("WS1", <<"NLP", "for", "Science">>, AnaAndBen, Dec8, Field(us, p)) :
        us \in UserLists, p \in Paddings }

\* The rows after the first: none, or some of two rows of Workshops.
TailWorkshops ==
    { Workshop("WS1", <<"NLP", "for", "Science">>, AnaAndBen, Dec8, <<>>),
      Workshop("WS2", Placeholder \o <<"II">>, AnaCher, TwoDayLiteral, <<"b", "o">>) }

Tails == UNION {[1..n -> TailWorkshops] : n \in 0..(MaxRows - 1)}

FewRemotes == {<<>>, <<PriorRepo("WS1", 1)>>, <<PriorRepo("WS2", 2), PriorRepo("WS1", 1)>>}

InitChairs == InitOn({<<w>> \o t : w \in ChairWorkshops, t \in Tails}, FewRemotes)

SpecChairs == InitChairs /\ [][Next]_vars

----------------------------------------------------------------------------
(* C8 *)

\* C8: for a book-chair field that lists k usernames separated by commas with
\* spaces around them, a successful apply makes exactly k add_to_collaborators
\* calls, one per username in the listed order, each at admin permission and with
\* the username free of spaces.
C8_OneGrantPerUsername ==
    \A n \in 1..Len(rows) :
        AppliedOk(run, n) =>
            \A us \in UserLists, p \in Paddings :
                rows[n].chairs = Field(us, p) =>
                    LET grants == OpsOf(run, n, {"add_to_collaborators"})
                    IN  /\ Len(grants) = Len(us)
                        /\ \A x \in 1..Len(us) :
                              /\ grants[x].arg = us[x]
                              /\ grants[x].permission = "admin"
                              /\ grants[x].ok

C8_Witness ==
    /\ AppliedOk(run, 1)
    /\ rows[1].chairs = <<" ", "a", " ", ",", " ", "b", "o", " ", " ">>
    /\ Len(OpsOf(run, 1, {"add_to_collaborators"})) = 2

----------------------------------------------------------------------------
(* Sheets whose first row has one of a range of date fields *)

FormatDMY(d, m, y) ==
    TwoDigits(d) \o <<"/">> \o TwoDigits(m) \o <<"/">>
        \o TwoDigits(y \div 100) \o TwoDigits(y % 100)

Days == {1, 8, 29, 30, 31}
Months == {2, 4, 12}
Years == {2022, 2024}

\* The day exists in the calendar (within Days, Months, Years).
RealDate(d, m, y) ==
    /\ ~(m = 2 /\ d > 29)
    /\ ~(m = 2 /\ d = 29 /\ y = 2022)
    /\ ~(m = 4 /\ d = 31)

PaddedDates == {FormatDMY(d, m, y) : d \in Days, m \in Months, y \in Years}

\* Day or month written without its leading zero: %d and %m read these too.
UnpaddedDates ==
    { <<"8", "/", "1", "2", "/", "2", "0", "2", "2">>,
      <<" ", "8", "/", "1", "2", "/", "2", "0", "2", "2">>,
      <<"2", "9", "/", "2", "/", "2", "0", "2", "4">> }

\* Neither the two-day literal nor a day/month/year.
MalformedDates ==
    { <<>>,
      <<"8", " ", "D", "e", "c">>,
      TwoDayLiteral \o <<" ">>,
      <<"7", " ", "&", " ", "8">>,
      <<"2", "0", "2", "2", "-", "1", "2", "-", "0", "8">>,
      <<"0", "8", "-", "1", "2", "-", "2", "0", "2", "2">>,
      <<"0", "8", "/", "1", "2", "/", "2", "2">>,
      <<"0", "8", "/", "1", "2", "/", "2", "0", "2", "2", " ">>,
      <<" ", "0", "8", "/", "1", "2", "/", "2", "0", "2", "2">>,
      <<"0", "8", "/", "1", "2">>,
      <<"0", "0", "/", "1", "2", "/", "2", "0", "2", "2">>,
      <<"0", "8", "/", "1", "3", "/", "2", "0", "2", "2">>,
      <<"3", "2", "/", "1", "2", "/", "2", "0", "2", "2">>,
      <<"1", "2", "/", "0", "8", "/", "0", "0", "0", "0">> }

DateWorkshops ==
    { Workshop("WS1", <<"NLP", "for", "Science">>, AnaAndBen, d, <<"a">>) :
        d \in {TwoDayLiteral} \cup PaddedDates \cup UnpaddedDates \cup MalformedDates }

InitDates == InitOn({<<w>> \o t : w \in DateWorkshops, t \in Tails}, FewRemotes)

SpecDates == InitDates /\ [][Next]_vars

----------------------------------------------------------------------------
(* C9 *)

DateRaised ==
    /\ pc = "raised"
    /\ error = [type |-> "ValueError", about |-> rows[i].date, at |-> i, run |-> run]
    /\ CallsOf(run, i) = <<>>

\* C9: the two-day literal gives 2022-12-07 and 2022-12-08; any other valid
\* day/month/year gives that date as start and as end; anything else raises the
\* date error (ValueError) and no date is made of it.
C9_DateParsing ==
    (pc \notin {"for", "done"}) =>
        LET date == rows[i].date IN
        /\ date = TwoDayLiteral =>
              /\ ~DateRaised
              /\ metadata.start_date = [year |-> 2022, month |-> 12, day |-> 7]
              /\ metadata.end_date = [year |-> 2022, month |-> 12, day |-> 8]
              /\ Contains(metadata.conference_details,
                          <<"start_date: ", "2", "0", "2", "2", "-", "1", "2", "-", "0", "7",
                            "\n", "end_date: ", "2", "0", "2", "2", "-", "1", "2", "-", "0", "8">>)
        /\ \A d \in Days, m \in Months, y \in Years :
              date = FormatDMY(d, m, y) =>
                  IF RealDate(d, m, y)
                  THEN /\ ~DateRaised
                       /\ metadata.start_date = [year |-> y, month |-> m, day |-> d]
                       /\ metadata.end_date = metadata.start_date
                  ELSE DateRaised
        /\ date = <<"2", "9", "/", "2", "/", "2", "0", "2", "4">> =>
              /\ metadata.start_date = [year |-> 2024, month |-> 2, day |-> 29]
              /\ metadata.end_date = metadata.start_date
        /\ date \in { <<"8", "/", "1", "2", "/", "2", "0", "2", "2">>,
                      <<" ", "8", "/", "1", "2", "/", "2", "0", "2", "2">> } =>
              /\ metadata.start_date = [year |-> 2022, month |-> 12, day |-> 8]
              /\ metadata.end_date = metadata.start_date
        /\ date \in MalformedDates => DateRaised

C9_Witness ==
    /\ pc = "get_repo"
    /\ rows[i].date = TwoDayLiteral
    /\ metadata.start_date # metadata.end_date
    /\ metadata.data = rows[i]

====
